---- MODULE Spec2Model ----
(***************************************************************************)
(* Model of the duech-online editorial application: the API route handlers *)
(* for words and their editorial comments, and the client comment section  *)
(* (loading with cancellation, optimistic add with rollback).              *)
(*                                                                         *)
(* JavaScript strings are sequences of one-character strings; JavaScript   *)
(* values of mixed type (number | null | NaN, string | undefined) are      *)
(* tagged records so that === can be modelled.                             *)
(***************************************************************************)
EXTENDS Integers, Sequences, FiniteSets, TLC

\* ------------------------------------------------------------------ bounds
\* Largest comment (note) id the database holds.
MaxNoteId == 1
\* How far the clock behind Date.now() advances.
MaxTicks == 1
\* addComment invocations whose PUT is in flight at once.
MaxPending == 2
\* Length of the section's comments list.
MaxComments == 2
\* loadComments fetches in flight at once.
MaxLoads == 2

\* ------------------------------------------------------------ JS values
Num(n) == [t |-> "number", v |-> n]
Null == [t |-> "null", v |-> 0]
NaN == [t |-> "NaN", v |-> 0]
JsStr(s) == [t |-> "string", s |-> s]
JsUndefined == [t |-> "undefined", s |-> <<>>]
JsNumber == [t |-> "number", s |-> <<>>]

\* a === b on number | null | NaN: NaN equals nothing, not even itself.
StrictEq(a, b) == a.t # "NaN" /\ b.t # "NaN" /\ a = b

\* Truthiness of number | null | NaN (!x is its negation).
Truthy(x) == x.t = "number" /\ x.v # 0

Digits == {"0", "1", "2", "3", "4", "5", "6", "7", "8", "9"}

DigitVal(c) ==
  CASE c = "0" -> 0 [] c = "1" -> 1 [] c = "2" -> 2 [] c = "3" -> 3
    [] c = "4" -> 4 [] c = "5" -> 5 [] c = "6" -> 6 [] c = "7" -> 7
    [] c = "8" -> 8 [] c = "9" -> 9

RECURSIVE SkipSpaces(_)
SkipSpaces(s) ==
  IF s # <<>> /\ Head(s) = " " THEN SkipSpaces(Tail(s)) ELSE s

RECURSIVE DigitPrefix(_)
DigitPrefix(s) ==
  IF s # <<>> /\ Head(s) \in Digits THEN <<Head(s)>> \o DigitPrefix(Tail(s)) ELSE <<>>

RECURSIVE DecimalValue(_, _)
DecimalValue(ds, acc) ==
  IF ds = <<>> THEN acc ELSE DecimalValue(Tail(ds), acc * 10 + DigitVal(Head(ds)))

\* Number.parseInt(s, 10): leading whitespace and one sign are skipped, the
\* longest digit prefix is read, anything after it is ignored; no digit: NaN.
ParseInt(s) ==
  LET t == SkipSpaces(s)
      signed == t # <<>> /\ Head(t) \in {"-", "+"}
      u == IF signed THEN Tail(t) ELSE t
      ds == DigitPrefix(u)
      n == DecimalValue(ds, 0)
  IN IF ds = <<>> THEN NaN
     ELSE IF signed /\ Head(t) = "-" THEN Num(0 - n) ELSE Num(n)

\* Number.isInteger
IsInteger(x) == x.t = "number"

\* String.prototype.trim: the string between its first and last non-space
\* characters.
Trim(s) ==
  LET n == Len(s)
      first == CHOOSE i \in 1..n : s[i] # " " /\ \A j \in 1..(i - 1) : s[j] = " "
      last == CHOOSE i \in 1..n : s[i] # " " /\ \A j \in (i + 1)..n : s[j] = " "
  IN IF \A i \in 1..n : s[i] = " " THEN <<>> ELSE SubSeq(s, first, last)

URIError == <<"URIError">>

HexDigits == Digits \cup {"a", "b", "c", "d", "e", "f"}

\* The character a %XX escape stands for (only ASCII escapes are drawn).
PercentChar(h, l) ==
  CASE h = "2" /\ l = "0" -> " "
    [] h = "6" /\ l = "1" -> "a"
    [] h = "6" /\ l = "2" -> "b"
    [] OTHER -> "?"

\* decodeURIComponent: every %XX escape is replaced by its character, a % that
\* does not start an escape throws URIError.
DecodeURIComponent(s) ==
  LET n == Len(s)
      escapes == {i \in 1..n : s[i] = "%"}
      wellFormed ==
        \A i \in escapes : i + 2 <= n /\ s[i + 1] \in HexDigits /\ s[i + 2] \in HexDigits
      Kept(i) == ~(\E e \in escapes : i = e + 1 \/ i = e + 2)
      kept == SelectSeq([i \in 1..n |-> i], Kept)
  IN IF ~wellFormed THEN URIError
     ELSE [k \in 1..Len(kept) |->
             IF s[kept[k]] = "%" THEN PercentChar(s[kept[k] + 1], s[kept[k] + 2])
             ELSE s[kept[k]]]

\* ------------------------------------------------------------ input domains
\* Session users (getSessionUser): none, or an id string and a role.
NoRole == "<undefined>"
Roles == {"admin", "superadmin", "lexicographer", "editor", NoRole}
SessionIds == {<<>>, <<"1">>, <<"2">>, <<"x">>, <<"1", "x">>}
NoUser == [present |-> FALSE, id |-> <<>>, role |-> NoRole]
SessionUsers ==
  {NoUser} \cup {[present |-> TRUE, id |-> i, role |-> r] : i \in SessionIds, r \in Roles}

\* Lemmas of the words the database can hold.
WordLemmas == {<<"a">>, <<"b">>}
\* Raw [lemma] route parameters.
LemmaParams == {<<"a">>, <<"b">>, <<"%", "6", "1">>, <<"%">>}
\* Raw [commentId] route parameters.
CommentIdParams == {<<"1">>, <<"2">>, <<"0">>, <<"x">>, <<"-", "1">>}
\* Database user ids of comment authors (null: no author).
UserIds == {Num(1), Num(2), Null}
NoteTexts == {<<"a">>, <<"b">>}

NoNote == [exists |-> FALSE, userId |-> Null, lemma |-> <<>>, note |-> <<>>]
Notes ==
  {NoNote} \cup
  {[exists |-> TRUE, userId |-> u, lemma |-> l, note |-> n] :
     u \in UserIds, l \in WordLemmas, n \in NoteTexts}
NoteIds == 1..MaxNoteId

\* Bodies of a PATCH request: not JSON, or an object with a note field.
Malformed == [json |-> FALSE, note |-> JsUndefined]
PatchBodies ==
  {Malformed} \cup
  {[json |-> TRUE, note |-> v] :
     v \in {JsUndefined, JsStr(<<" ">>), JsStr(<<"a">>), JsStr(<<" ", "b", " ">>)}}

\* ------------------------------------------------------------------ state
VARIABLES
  words,   \* database: lemma -> status of the word ("none" when absent)
  notes,   \* database: note id -> note (NoNote when absent)
  nextNoteId, \* database: the id the next created note gets
  req,     \* the request the last handler run answered
  resp,    \* its response
  calls,   \* the library calls it made, in order, with arguments and results
  \* WordCommentSection (client component)
  sectionLemma, \* the lemma prop
  mounted,   \* whether the section is mounted
  comments,  \* useState: the comments list
  loading,   \* useState: the loading flag
  error,     \* useState: the error message, or NoError
  loads,     \* the loadComments invocations whose fetch has not settled
  adds,      \* the addComment invocations whose PUT has not settled
  now,       \* the value Date.now() returns
  last       \* the last event of the section and its arguments

dbVars == <<words, notes, nextNoteId>>
apiVars == <<words, notes, nextNoteId, req, resp, calls>>
clientVars == <<sectionLemma, mounted, comments, loading, error, loads, adds, now, last>>
vars == <<words, notes, nextNoteId, req, resp, calls,
          sectionLemma, mounted, comments, loading, error, loads, adds, now, last>>

Call(fn, args, ret) == [fn |-> fn, args |-> args, ret |-> ret]
Result(status, data, cs, ns) == [status |-> status, data |-> data, calls |-> cs, notes |-> ns]
Called(fn) == \E i \in 1..Len(calls) : calls[i].fn = fn
Thrown == [exists |-> FALSE, userId |-> NaN, lemma |-> <<"throw">>, note |-> <<>>]

\* ------------------------------------------ /api/words/[lemma]/comments/[commentId]
ParseCommentId(rawId) ==
  LET parsed == ParseInt(rawId)
  IN IF parsed.t = "NaN" \/ parsed.v <= 0 THEN Null ELSE parsed

NormalizeLemma(rawLemma) ==
  LET d == DecodeURIComponent(rawLemma)
  IN IF d = URIError THEN rawLemma ELSE d

\* getNoteWithDetails of lib/editor-mutations: the stored note, or null.
GetNoteWithDetails(ns, id) == IF id \in DOMAIN ns THEN ns[id] ELSE NoNote

\* The note, or null when it is missing or belongs to another word.
GetAuthorizedNote(ns, lemma, commentId) ==
  LET note == GetNoteWithDetails(ns, commentId)
  IN IF ~note.exists \/ note.lemma # lemma THEN NoNote ELSE note

\* Mutant: the session check is forgotten.
Unauthenticated_Skipped(user) == FALSE

\* !user
Unauthenticated(user) == ~user.present

RequesterId(user) == IF user.id # <<>> THEN ParseInt(user.id) ELSE Null

IsOwner(user, note) ==
  RequesterId(user).t # "null" /\ StrictEq(note.userId, RequesterId(user))

\* Mutant: an admin may edit any comment, as for deletion.
CanEdit_AdminAny(user, note) ==
  LET role == IF user.role = NoRole THEN "" ELSE user.role
  IN (IsOwner(user, note) /\ role = "lexicographer") \/ role \in {"admin", "superadmin"}

CanEdit(user, note) ==
  LET role == IF user.role = NoRole THEN "" ELSE user.role
  IN IsOwner(user, note) /\ role \in {"lexicographer", "admin", "superadmin"}

\* Mutant: the ownership test of a lexicographer is forgotten.
CanDelete_AnyLexicographer(user, note) ==
  user.role \in {"lexicographer", "admin", "superadmin"}

CanDelete(user, note) ==
  LET isLexicographer == user.role = "lexicographer"
      isAdmin == user.role = "admin" \/ user.role = "superadmin"
  IN (isLexicographer /\ IsOwner(user, note)) \/ isAdmin

CommentPATCHResult(ns, user, lemma, commentId, body, dbDown) ==
  LET c1 == <<Call("getSessionUser", <<>>, user)>>
      normalizedLemma == NormalizeLemma(lemma)
      noteId == ParseCommentId(commentId)
      noteValue == IF body.note.t = "string" THEN Trim(body.note.s) ELSE <<>>
      c2 == c1 \o <<Call("request.json", <<>>, body)>>
      note == GetAuthorizedNote(ns, normalizedLemma, noteId.v)
      c3 == c2 \o <<Call("getNoteWithDetails", <<noteId.v>>,
                         IF dbDown THEN Thrown ELSE GetNoteWithDetails(ns, noteId.v))>>
      updated == [ns[noteId.v] EXCEPT !.note = noteValue]
      c4 == c3 \o <<Call("updateNoteValue", <<noteId.v, noteValue>>, updated)>>
  IN IF Unauthenticated(user) THEN Result(401, "error", c1, ns)
     ELSE IF ~Truthy(noteId) THEN Result(400, "error", c1, ns)
     ELSE IF ~body.json THEN Result(500, "error", c2, ns)
     ELSE IF noteValue = <<>> THEN Result(400, "error", c2, ns)
     ELSE IF dbDown THEN Result(500, "error", c3, ns)
     ELSE IF ~note.exists THEN Result(404, "error", c3, ns)
     ELSE IF ~CanEdit(user, note) THEN Result(403, "error", c3, ns)
     ELSE Result(200, updated, c4, [ns EXCEPT ![noteId.v] = updated])

CommentDELETEResult(ns, user, lemma, commentId, dbDown) ==
  LET c1 == <<Call("getSessionUser", <<>>, user)>>
      normalizedLemma == NormalizeLemma(lemma)
      noteId == ParseCommentId(commentId)
      note == GetAuthorizedNote(ns, normalizedLemma, noteId.v)
      c2 == c1 \o <<Call("getNoteWithDetails", <<noteId.v>>,
                         IF dbDown THEN Thrown ELSE GetNoteWithDetails(ns, noteId.v))>>
      c3 == c2 \o <<Call("deleteNoteById", <<noteId.v>>, NoNote)>>
  IN IF Unauthenticated(user) THEN Result(401, "error", c1, ns)
     ELSE IF ~Truthy(noteId) THEN Result(400, "error", c1, ns)
     ELSE IF dbDown THEN Result(500, "error", c2, ns)
     ELSE IF ~note.exists THEN Result(404, "error", c2, ns)
     ELSE IF ~CanDelete(user, note) THEN Result(403, "error", c2, ns)
     ELSE Result(200, noteId, c3, [ns EXCEPT ![noteId.v] = NoNote])

CommentPATCH ==
  /\ req.op = "none"
  /\ UNCHANGED clientVars
  /\ \E user \in SessionUsers, lemma \in LemmaParams, commentId \in CommentIdParams,
     body \in PatchBodies, dbDown \in BOOLEAN :
    LET r == CommentPATCHResult(notes, user, lemma, commentId, body, dbDown)
    IN /\ req' = [op |-> "CommentPATCH", user |-> user, lemma |-> lemma,
                  commentId |-> commentId, body |-> body, dbDown |-> dbDown]
       /\ resp' = [status |-> r.status, data |-> r.data]
       /\ calls' = r.calls
       /\ notes' = r.notes
       /\ UNCHANGED <<words, nextNoteId>>

CommentDELETE ==
  /\ req.op = "none"
  /\ UNCHANGED clientVars
  /\ \E user \in SessionUsers, lemma \in LemmaParams, commentId \in CommentIdParams,
     dbDown \in BOOLEAN :
    LET r == CommentDELETEResult(notes, user, lemma, commentId, dbDown)
    IN /\ req' = [op |-> "CommentDELETE", user |-> user, lemma |-> lemma,
                  commentId |-> commentId, body |-> Malformed, dbDown |-> dbDown]
       /\ resp' = [status |-> r.status, data |-> r.data]
       /\ calls' = r.calls
       /\ notes' = r.notes
       /\ UNCHANGED <<words, nextNoteId>>

NoRequest ==
  [op |-> "none", user |-> NoUser, lemma |-> <<>>, commentId |-> <<>>,
   body |-> Malformed, dbDown |-> FALSE]

NoResponse == [status |-> 0, data |-> "none"]

NoError == "null"
NoEvent == [op |-> "none"]

\* The section is not rendered.
NoSection ==
  /\ sectionLemma = <<>>
  /\ mounted = FALSE
  /\ comments = <<>>
  /\ loading = FALSE
  /\ error = NoError
  /\ loads = <<>>
  /\ adds = <<>>
  /\ now = MaxNoteId + 1
  /\ last = NoEvent

InitCommentApi ==
  /\ words = [l \in WordLemmas |-> "published"]
  /\ notes \in [NoteIds -> Notes]
  /\ nextNoteId = MaxNoteId + 1
  /\ req = NoRequest
  /\ resp = NoResponse
  /\ calls = <<>>
  /\ NoSection

\* The response is returned to the client and the handler run ends.
Respond ==
  /\ req.op # "none"
  /\ UNCHANGED clientVars
  /\ req' = NoRequest
  /\ resp' = NoResponse
  /\ calls' = <<>>
  /\ UNCHANGED dbVars

NextCommentApi == CommentPATCH \/ CommentDELETE \/ Respond

SpecCommentApi == InitCommentApi /\ [][NextCommentApi]_vars

\* ------------------------------------------------------- /api/words/[lemma]
\* The longest decoded lemma GET looks up.
LemmaMaxLength == 100

Repeat(c, n) == [i \in 1..n |-> c]

\* Raw [lemma] parameters of GET, with lemmas at and over the length limit.
GetLemmaParams ==
  {<<>>, <<" ">>, <<"a">>, <<" ", "b">>, <<"%">>, <<"%", "6", "1">>, <<"%", "2", "0">>,
   Repeat("a", LemmaMaxLength), Repeat("a", LemmaMaxLength + 1)}

\* url.searchParams.get('editorMode'): null, or the parameter's value.
QueryNull == [t |-> "null", s |-> <<>>]
EditorModeQueries ==
  {QueryNull, JsStr(<<"t", "r", "u", "e">>), JsStr(<<"T", "R", "U", "E">>), JsStr(<<"1">>)}

IncludeDrafts == "{ includeDrafts: true }"
NoOptions == "undefined"

NoWord == [found |-> FALSE, lemma |-> <<>>, status |-> "none"]
\* The lookup threw instead of returning.
LookupThrown == [found |-> FALSE, lemma |-> <<"throw">>, status |-> "none"]

\* getWordByLemma of lib/queries: the word, drafts (status imported) only on request.
GetWordByLemma(ws, lemma, options) ==
  IF lemma \in DOMAIN ws /\ ws[lemma] # "none"
     /\ (ws[lemma] = "published" \/ options = IncludeDrafts)
  THEN [found |-> TRUE, lemma |-> lemma, status |-> ws[lemma]]
  ELSE NoWord

\* Mutant: the query parameter fallback is dropped.
EditorMode_HeadersOnly(headerEditor, query) == headerEditor

\* isEditorModeFromHeaders(request.headers) || searchParams.get('editorMode') === 'true'
EditorMode(headerEditor, query) ==
  headerEditor \/ query = JsStr(<<"t", "r", "u", "e">>)

LookupOptions(editorMode) == IF editorMode THEN IncludeDrafts ELSE NoOptions

\* Mutant: a failed rate-limit check is ignored.
RateLimited_Ignored(rateLimitResult) == FALSE

\* !rateLimitResult.success
RateLimited(rateLimitResult) == ~rateLimitResult

\* Mutant: the length limit lets one more character through.
LemmaTooLong_OffByOne(decodedLemma) == Len(decodedLemma) > LemmaMaxLength + 1

\* decodedLemma.length > 100
LemmaTooLong(decodedLemma) == Len(decodedLemma) > LemmaMaxLength

WResult(status, data, cs, ws, ns, nid) ==
  [status |-> status, data |-> data, calls |-> cs, words |-> ws, notes |-> ns, nextNoteId |-> nid]

WordGETResult(ws, rateOk, lemma, headerEditor, query, dbDown) ==
  LET c1 == <<Call("applyRateLimit", <<>>, rateOk)>>
      c2 == c1 \o <<Call("params", <<>>, lemma)>>
      decodedLemma == DecodeURIComponent(Trim(lemma))
      c3 == c2 \o <<Call("isEditorModeFromHeaders", <<>>, headerEditor)>>
               \o (IF headerEditor THEN <<>>
                   ELSE <<Call("searchParams.get", <<"editorMode">>, query)>>)
      editorMode == EditorMode(headerEditor, query)
      options == LookupOptions(editorMode)
      wordData == GetWordByLemma(ws, decodedLemma, options)
      c4 == c3 \o <<Call("getWordByLemma", <<decodedLemma, options>>,
                         IF dbDown THEN LookupThrown ELSE wordData)>>
      R(status, data, cs) == [status |-> status, data |-> data, calls |-> cs]
  IN IF RateLimited(rateOk) THEN R(429, "Too Many Requests", c1)
     ELSE IF lemma = <<>> \/ Len(Trim(lemma)) = 0 THEN R(400, "Invalid lemma parameter", c2)
     ELSE IF decodedLemma = URIError THEN R(500, "Internal server error", c2)
     ELSE IF LemmaTooLong(decodedLemma) THEN R(400, "Lemma too long", c2)
     ELSE IF dbDown THEN R(500, "Internal server error", c4)
     ELSE IF ~wordData.found THEN R(404, "Word not found", c4)
     ELSE R(200, wordData, c4)

WordGET ==
  /\ req.op = "none"
  /\ UNCHANGED clientVars
  /\ \E rateOk \in BOOLEAN, lemma \in GetLemmaParams, headerEditor \in BOOLEAN,
        query \in EditorModeQueries, dbDown \in BOOLEAN :
       LET r == WordGETResult(words, rateOk, lemma, headerEditor, query, dbDown)
       IN /\ req' = [op |-> "WordGET", rateOk |-> rateOk, lemma |-> lemma,
                     headerEditor |-> headerEditor, query |-> query, dbDown |-> dbDown]
          /\ resp' = [status |-> r.status, data |-> r.data]
          /\ calls' = r.calls
          /\ UNCHANGED dbVars

\* Bodies of a POST request: not JSON, the JSON value null, or an object with
\* lemma and letter fields.
PostBodies ==
  {[json |-> FALSE, isNull |-> FALSE, lemma |-> JsUndefined, letter |-> JsUndefined],
   [json |-> TRUE, isNull |-> TRUE, lemma |-> JsUndefined, letter |-> JsUndefined]} \cup
  {[json |-> TRUE, isNull |-> FALSE, lemma |-> l, letter |-> t] :
     l \in {JsUndefined, JsNumber, JsStr(<<" ">>), JsStr(<<"a">>), JsStr(<<" ", "b", " ">>)},
     t \in {JsUndefined, JsStr(<<" ", "b">>)}}

WordExists(ws, lemma) == lemma \in DOMAIN ws /\ ws[lemma] # "none"

\* createWord of lib/editor-mutations: inserts the word as a draft; the letter
\* defaults to the lemma's first character; a duplicate lemma throws.
CreateWord(lemma, letter) ==
  [wordId |-> IF lemma = <<"a">> THEN 1 ELSE 2, lemma |-> lemma,
   letter |-> IF letter = <<>> THEN <<Head(lemma)>> ELSE letter]

\* createWord threw instead of returning.
CreateThrown == [wordId |-> 0, lemma |-> <<"throw">>, letter |-> <<>>]

\* Mutant: the lemma is taken as sent, without trimming.
PostLemma_Untrimmed(body) == IF body.lemma.t = "string" THEN body.lemma.s ELSE <<>>

\* typeof payload.lemma === 'string' ? payload.lemma.trim() : ''
PostLemma(body) == IF body.lemma.t = "string" THEN Trim(body.lemma.s) ELSE <<>>

WordPOSTResult(ws, rateOk, body, dbDown) ==
  LET c1 == <<Call("applyRateLimit", <<>>, rateOk)>>
      c2 == c1 \o <<Call("request.json", <<>>, body)>>
      lemma == PostLemma(body)
      letter == IF body.letter.t = "string" THEN Trim(body.letter.s) ELSE <<>>
      result == CreateWord(lemma, letter)
      createFails == dbDown \/ WordExists(ws, lemma)
      c3 == c2 \o <<Call("createWord", <<lemma, letter>>,
                         IF createFails THEN CreateThrown ELSE result)>>
      R(status, data, cs, w) == [status |-> status, data |-> data, calls |-> cs, words |-> w]
  IN IF RateLimited(rateOk) THEN R(429, "Too Many Requests", c1, ws)
     ELSE IF ~body.json \/ body.isNull THEN R(500, "Error al crear la palabra", c2, ws)
     ELSE IF lemma = <<>> THEN R(400, "El lema es obligatorio", c2, ws)
     ELSE IF createFails THEN R(500, "Error al crear la palabra", c3, ws)
     ELSE R(201, result, c3, [ws EXCEPT ![lemma] = "imported"])

WordPOST ==
  /\ req.op = "none"
  /\ UNCHANGED clientVars
  /\ \E rateOk \in BOOLEAN, body \in PostBodies, dbDown \in BOOLEAN :
       LET r == WordPOSTResult(words, rateOk, body, dbDown)
       IN /\ req' = [op |-> "WordPOST", rateOk |-> rateOk, body |-> body, dbDown |-> dbDown]
          /\ resp' = [status |-> r.status, data |-> r.data]
          /\ calls' = r.calls
          /\ words' = r.words
          /\ UNCHANGED <<notes, nextNoteId>>

\* Session users of the PUT requests drawn (PUT reads the id only).
PutUsers ==
  {NoUser} \cup
  {[present |-> TRUE, id |-> i, role |-> r] :
     i \in {<<>>, <<"1">>, <<"x">>, <<"1", "x">>}, r \in {"admin", "editor"}}

\* Bodies of a PUT request: not JSON, JSON that is no object, or an object with
\* word (present or not), comment and status fields.
PutBodies ==
  {[json |-> FALSE, object |-> FALSE, word |-> FALSE, comment |-> JsUndefined, status |-> "undefined"],
   [json |-> TRUE, object |-> FALSE, word |-> FALSE, comment |-> JsUndefined, status |-> "undefined"]}
  \cup
  {[json |-> TRUE, object |-> TRUE, word |-> w, comment |-> c, status |-> st] :
     w \in BOOLEAN,
     c \in {JsUndefined, JsStr(<<" ">>), JsStr(<<"a">>), JsStr(<<" ", "a", " ">>)},
     st \in {"undefined", "published"}}

\* Mutant: every comment is created without an author.
NoteUserId_Anonymous(session) == Null

\* The author addNoteToWord gets: the session id when it parses to an integer.
NoteUserId(session) ==
  LET maybeId == IF session.present /\ session.id # <<>> THEN ParseInt(session.id) ELSE NaN
  IN IF IsInteger(maybeId) THEN maybeId ELSE Null

\* Mutant: a comment counts as given whenever it is a non-empty string.
HasComment_Untrimmed(comment) == comment.t = "string" /\ Len(comment.s) > 0

\* typeof comment === 'string' && comment.trim().length > 0
HasComment(comment) == comment.t = "string" /\ Len(Trim(comment.s)) > 0

\* Mutant: the word update runs for every request.
UpdatesWord_Always(body) == TRUE

\* if (updatedWord)
UpdatesWord(body) == body.word

WordPUTResult(ws, ns, nid, session, lemma, body, dbDown) ==
  LET c1 == <<Call("params", <<>>, lemma)>>
      decodedLemma == DecodeURIComponent(lemma)
      c2 == c1 \o <<Call("request.json", <<>>, body)>>
      hasComment == HasComment(body.comment)
      hasWord == UpdatesWord(body)
      userId == NoteUserId(session)
      created == [exists |-> TRUE, userId |-> userId, lemma |-> decodedLemma,
                  note |-> Trim(body.comment.s)]
      addFails == dbDown \/ ~WordExists(ws, decodedLemma)
      c3 == IF hasComment
            THEN c2 \o <<Call("getSessionUser", <<>>, session),
                         Call("addNoteToWord", <<decodedLemma, Trim(body.comment.s), userId>>,
                              IF addFails THEN Thrown ELSE created)>>
            ELSE c2
      ns1 == IF hasComment /\ ~addFails THEN (nid :> created) @@ ns ELSE ns
      nid1 == IF hasComment /\ ~addFails THEN nid + 1 ELSE nid
      updateFails == dbDown \/ ~WordExists(ws, decodedLemma)
      c4 == c3 \o <<Call("updateWordByLemma", <<decodedLemma, body.status>>, ~updateFails)>>
      ws1 == IF body.status = "undefined" THEN ws ELSE [ws EXCEPT ![decodedLemma] = body.status]
      data == IF hasComment THEN [id |-> nid, comment |-> created] ELSE [id |-> 0, comment |-> NoNote]
  IN IF decodedLemma = URIError THEN WResult(500, "Error al actualizar la palabra", c1, ws, ns, nid)
     ELSE IF ~body.json THEN WResult(500, "Error al actualizar la palabra", c2, ws, ns, nid)
     ELSE IF ~body.object THEN WResult(400, "Solicitud invalida", c2, ws, ns, nid)
     ELSE IF hasComment /\ addFails
       THEN WResult(500, "Error al actualizar la palabra", c3, ws, ns, nid)
     ELSE IF hasWord /\ updateFails
       THEN WResult(500, "Error al actualizar la palabra", c4, ws, ns1, nid1)
     ELSE IF hasWord THEN WResult(200, data, c4, ws1, ns1, nid1)
     ELSE IF ~hasComment
       THEN WResult(400, "No se proporcionaron cambios para actualizar", c3, ws, ns1, nid1)
     ELSE WResult(200, data, c3, ws, ns1, nid1)

WordPUT ==
  /\ req.op = "none"
  /\ UNCHANGED clientVars
  /\ \E session \in PutUsers, lemma \in LemmaParams, body \in PutBodies, dbDown \in BOOLEAN :
       LET r == WordPUTResult(words, notes, nextNoteId, session, lemma, body, dbDown)
       IN /\ r.nextNoteId <= MaxNoteId + 1
          /\ req' = [op |-> "WordPUT", user |-> session, lemma |-> lemma, body |-> body,
                     dbDown |-> dbDown]
          /\ resp' = [status |-> r.status, data |-> r.data]
          /\ calls' = r.calls
          /\ words' = r.words
          /\ notes' = r.notes
          /\ nextNoteId' = r.nextNoteId

\* Mutant: every signed-in user may delete a word.
IsAdmin_AnyRole(user) == TRUE

\* user.role === 'admin' || user.role === 'superadmin'
IsAdmin(user) == user.role = "admin" \/ user.role = "superadmin"

\* deleteWordByLemma of lib/editor-mutations: removes the word and, by cascade,
\* its notes.
DeleteWordNotes(ns, lemma) ==
  [i \in DOMAIN ns |-> IF ns[i].exists /\ ns[i].lemma = lemma THEN NoNote ELSE ns[i]]

WordDELETEResult(ws, ns, nid, user, lemma, dbDown) ==
  LET c1 == <<Call("getSessionUser", <<>>, user)>>
      c2 == c1 \o <<Call("params", <<>>, lemma)>>
      decodedLemma == DecodeURIComponent(lemma)
      deleteFails == dbDown \/ ~WordExists(ws, decodedLemma)
      c3 == c2 \o <<Call("deleteWordByLemma", <<decodedLemma>>, ~deleteFails)>>
  IN IF Unauthenticated(user) THEN WResult(401, "Authentication required", c1, ws, ns, nid)
     ELSE IF ~IsAdmin(user)
       THEN WResult(403, "Forbidden: Admin permission required to delete words", c1, ws, ns, nid)
     ELSE IF decodedLemma = URIError
       THEN WResult(500, "Error al eliminar la palabra", c2, ws, ns, nid)
     ELSE IF deleteFails THEN WResult(500, "Error al eliminar la palabra", c3, ws, ns, nid)
     ELSE WResult(200, "success", c3, [ws EXCEPT ![decodedLemma] = "none"],
                  DeleteWordNotes(ns, decodedLemma), nid)

WordDELETE ==
  /\ req.op = "none"
  /\ UNCHANGED clientVars
  /\ \E user \in SessionUsers, lemma \in LemmaParams, dbDown \in BOOLEAN :
       LET r == WordDELETEResult(words, notes, nextNoteId, user, lemma, dbDown)
       IN /\ req' = [op |-> "WordDELETE", user |-> user, lemma |-> lemma, dbDown |-> dbDown]
          /\ resp' = [status |-> r.status, data |-> r.data]
          /\ calls' = r.calls
          /\ words' = r.words
          /\ notes' = r.notes
          /\ UNCHANGED nextNoteId

WordStatuses == {"none", "imported", "published"}

InitWordApi ==
  /\ words \in [WordLemmas -> WordStatuses]
  /\ notes = [i \in NoteIds |-> NoNote]
  /\ nextNoteId = 1
  /\ req = NoRequest
  /\ resp = NoResponse
  /\ calls = <<>>
  /\ NoSection

NextWordApi == WordGET \/ WordPOST \/ WordPUT \/ WordDELETE \/ Respond

SpecWordApi == InitWordApi /\ [][NextWordApi]_vars

\* ------------------------------------------------------- WordCommentSection
SectionLemmas == {<<>>, <<"a">>, <<"b">>}
\* Texts handed to addComment.
AddTexts == {<<" ">>, <<" ", "a", " ">>}

\* A comment as the server serialises it (id and note; user and createdAt are
\* carried along unchanged by every operation of the section).
Comment(id, note) == [id |-> id, note |-> note]
ServerComments == {Comment(i, <<"a">>) : i \in NoteIds}
\* Comment lists the server or the parent component hands over.
CommentLists == {<<>>} \cup {<<c>> : c \in ServerComments}

\* What the fetch of loadComments settles with: a body whose data.comments is an
\* array, a body without such an array, or a failure (network error, abort, a
\* status that is not ok, a body that is not JSON).
LoadOutcomes ==
  {[kind |-> "array", list |-> l] : l \in CommentLists} \cup
  {[kind |-> "noArray", list |-> <<>>], [kind |-> "failure", list |-> <<>>]}

LoadErrorMessage == "No pudimos cargar los comentarios."
NoLemmaMessage == "No pudimos asociar el comentario a la palabra actual."
AddErrorMessage == "No pudimos guardar el comentario. Vuelve a intentarlo."

RemoveAt(seq, i) == SubSeq(seq, 1, i - 1) \o SubSeq(seq, i + 1, Len(seq))

\* A loadComments invocation of the effect run that is in force: its closure
\* variable cancelled and its controller's signal.aborted.
NewLoad == [cancelled |-> FALSE, aborted |-> FALSE, stale |-> FALSE]

\* Mutant: the cleanup aborts the request but leaves the cancelled flag alone.
Cleanup_AbortOnly(f) == [f EXCEPT !.aborted = TRUE]

\* The effect's cleanup: cancelled = true; controller.abort().
Cleanup(f) == [f EXCEPT !.cancelled = TRUE, !.aborted = TRUE]

\* Every effect run before the one in force has been cleaned up; stale records
\* that the invocation belongs to such a run.
CleanupAll(ls) == [i \in DOMAIN ls |-> [Cleanup(ls[i]) EXCEPT !.stale = TRUE]]

\* if (!cancelled && Array.isArray(body.data?.comments)) setComments(...)
LoadSetComments(f, outcome, prev) ==
  IF outcome.kind = "array" /\ ~f.cancelled THEN outcome.list ELSE prev

\* catch: if (!controller.signal.aborted && !cancelled) setError(...)
LoadSetError(f, outcome, prev) ==
  IF outcome.kind = "failure" /\ ~f.aborted /\ ~f.cancelled THEN LoadErrorMessage ELSE prev

\* finally: if (!cancelled) setLoading(false)
LoadSetLoading(f, prev) == IF ~f.cancelled THEN FALSE ELSE prev

\* The [lemma] effect: the previous run is cleaned up; for a non-empty lemma
\* loadComments starts (setLoading(true), setError(null), fetch).
LemmaChanged ==
  /\ mounted
  /\ \E l \in SectionLemmas \ {sectionLemma} :
       /\ l # <<>> => Len(loads) < MaxLoads
       /\ sectionLemma' = l
       /\ loads' = IF l = <<>> THEN CleanupAll(loads)
                   ELSE Append(CleanupAll(loads), NewLoad)
       /\ loading' = IF l = <<>> THEN loading ELSE TRUE
       /\ error' = IF l = <<>> THEN error ELSE NoError
       /\ last' = [op |-> "lemmaChanged"]
  /\ UNCHANGED <<mounted, comments, adds, now>>
  /\ UNCHANGED apiVars

Unmount ==
  /\ mounted
  /\ mounted' = FALSE
  /\ loads' = CleanupAll(loads)
  /\ last' = [op |-> "unmount"]
  /\ UNCHANGED <<sectionLemma, comments, loading, error, adds, now>>
  /\ UNCHANGED apiVars

\* The fetch of a loadComments invocation settles and the rest of it runs.
LoadSettled ==
  /\ \E i \in DOMAIN loads, outcome \in LoadOutcomes :
       LET f == loads[i]
       IN /\ comments' = LoadSetComments(f, outcome, comments)
          /\ error' = LoadSetError(f, outcome, error)
          /\ loading' = LoadSetLoading(f, loading)
          /\ loads' = RemoveAt(loads, i)
          /\ last' = [op |-> "loadSettled", stale |-> f.stale, outcome |-> outcome.kind]
  /\ UNCHANGED <<sectionLemma, mounted, adds, now>>
  /\ UNCHANGED apiVars

\* The [initial] effect: the parent hands over a new initial list.
InitialChanged ==
  /\ mounted
  /\ \E initial \in CommentLists :
       /\ comments' = initial
       /\ last' = [op |-> "initialChanged"]
  /\ UNCHANGED <<sectionLemma, mounted, loading, error, loads, adds, now>>
  /\ UNCHANGED apiVars

\* Mutant: the optimistic comment is put at the end of the list.
PrependOptimistic_Appended(optimistic, prev) == prev \o <<optimistic>>

\* setComments((prev) => [optimistic, ...prev])
PrependOptimistic(optimistic, prev) == <<optimistic>> \o prev

\* prev.findIndex((comment) => comment.id === id): 0 stands for -1.
FindIndex(prev, id) ==
  IF \E i \in 1..Len(prev) : prev[i].id = id
  THEN CHOOSE i \in 1..Len(prev) : prev[i].id = id /\ \A j \in 1..(i - 1) : prev[j].id # id
  ELSE 0

\* The success branch: the entry with the optimistic id is replaced by the saved
\* comment; without such an entry the saved comment is put first.
ReplaceOptimistic(prev, optimistic, saved) ==
  LET index == FindIndex(prev, optimistic.id)
  IN IF index = 0 THEN <<saved>> \o prev ELSE [prev EXCEPT ![index] = saved]

\* The catch branch: prev.filter((comment) => comment.id !== optimistic.id)
RemoveOptimistic(prev, optimistic) ==
  LET Other(c) == c.id # optimistic.id
  IN SelectSeq(prev, Other)

AddComment ==
  /\ mounted
  /\ Len(adds) < MaxPending
  /\ Len(comments) < MaxComments
  /\ \E text \in AddTexts :
       LET trimmed == Trim(text)
           optimistic == Comment(now, trimmed)
       IN /\ last' = [op |-> "addComment", text |-> text]
          /\ IF trimmed = <<>> THEN UNCHANGED <<comments, error, adds>>
             ELSE IF sectionLemma = <<>>
               THEN error' = NoLemmaMessage /\ UNCHANGED <<comments, adds>>
             ELSE /\ error' = NoError
                  /\ comments' = PrependOptimistic(optimistic, comments)
                  /\ adds' = Append(adds, [text |-> text, optimistic |-> optimistic])
  /\ UNCHANGED <<sectionLemma, mounted, loading, loads, now>>
  /\ UNCHANGED apiVars

\* The PUT of an addComment invocation answers ok with data.comment.
AddSaved ==
  /\ \E i \in DOMAIN adds, id \in NoteIds :
       LET inv == adds[i]
           saved == Comment(id, inv.optimistic.note)
           next == ReplaceOptimistic(comments, inv.optimistic, saved)
       IN /\ Len(next) <= MaxComments
          /\ comments' = IF mounted THEN next ELSE comments
          /\ adds' = RemoveAt(adds, i)
          /\ last' = [op |-> "addSaved", optimistic |-> inv.optimistic, saved |-> saved]
  /\ UNCHANGED <<sectionLemma, mounted, loading, error, loads, now>>
  /\ UNCHANGED apiVars

\* The PUT of an addComment invocation fails: network error, a status that is
\* not ok, or a body without data.comment.
AddFailed ==
  /\ \E i \in DOMAIN adds :
       LET inv == adds[i]
       IN /\ comments' = IF mounted THEN RemoveOptimistic(comments, inv.optimistic)
                         ELSE comments
          /\ error' = IF mounted THEN AddErrorMessage ELSE error
          /\ adds' = RemoveAt(adds, i)
          /\ last' = [op |-> "addFailed", optimistic |-> inv.optimistic]
  /\ UNCHANGED <<sectionLemma, mounted, loading, loads, now>>
  /\ UNCHANGED apiVars

\* Time passes: Date.now() returns a later value.
Tick ==
  /\ now < MaxNoteId + 1 + MaxTicks
  /\ now' = now + 1
  /\ last' = [op |-> "tick"]
  /\ UNCHANGED <<sectionLemma, mounted, comments, loading, error, loads, adds>>
  /\ UNCHANGED apiVars

\* The section after its first render and effects.
InitSection ==
  /\ words = [l \in WordLemmas |-> "published"]
  /\ notes = [i \in NoteIds |-> NoNote]
  /\ nextNoteId = 1
  /\ req = NoRequest
  /\ resp = NoResponse
  /\ calls = <<>>
  /\ sectionLemma \in SectionLemmas
  /\ mounted = TRUE
  /\ comments \in CommentLists
  /\ loading = (sectionLemma # <<>>)
  /\ error = NoError
  /\ loads = IF sectionLemma = <<>> THEN <<>> ELSE <<NewLoad>>
  /\ adds = <<>>
  /\ now = MaxNoteId + 1
  /\ last = NoEvent

NextSection ==
  \/ LemmaChanged \/ Unmount \/ LoadSettled \/ InitialChanged
  \/ AddComment \/ AddSaved \/ AddFailed \/ Tick

SpecSection == InitSection /\ [][NextSection]_vars

\* ------------------------------------------------ lib/report-words-utils
\* Statuses of the words the report reads.
ReportStatuses == {"none", "redacted", "reviewedLex", "published"}

\* The filter argument: the three values of WordStatusFilter, and a value the
\* route's cast of the type query parameter lets through.
ReportFilters == {"redacted", "reviewedLex", "both", "published"}

\* Sessions of the report requests (the function reads email and name).
ReportUsers ==
  {[present |-> FALSE, email |-> "", name |-> ""]} \cup
  {[present |-> TRUE, email |-> e, name |-> n] :
     e \in {"a@duech.cl", "b@duech.cl"}, n \in {"<undefined>", "Ana"}}

LemmaOrder == <<<<"a">>, <<"b">>>>

\* getWordsByStatus of lib/queries: the words whose status is one of statuses.
GetWordsByStatus(ws, statuses) ==
  LET Wanted(l) == \E i \in 1..Len(statuses) : ws[l] = statuses[i]
  IN SelectSeq(LemmaOrder, Wanted)

\* Mutant: the filter is passed on as the only status.
FetchStatuses_FilterOnly(filter) == <<filter>>

\* filter === 'both' ? ['redacted', 'reviewedLex'] : [filter]
FetchStatuses(filter) ==
  IF filter = "both" THEN <<"redacted", "reviewedLex">> ELSE <<filter>>

\* What the function settles with: a returned object, or a rejection.
ReportResult(thrown, success, response, user, ws) ==
  [thrown |-> thrown, success |-> success, response |-> response, user |-> user, words |-> ws]

NoReportResponse == [status |-> 0, data |-> "none"]
NoReportUser == [email |-> "", name |-> ""]

AuthenticateAndFetchResult(ws, user, filter, dbDown) ==
  LET c1 == <<Call("getSessionUser", <<>>, user)>>
      statuses == FetchStatuses(filter)
      found == GetWordsByStatus(ws, statuses)
      c2 == c1 \o <<Call("getWordsByStatus", <<statuses>>,
                         IF dbDown THEN <<<<"throw">>>> ELSE found)>>
  IN IF Unauthenticated(user)
       THEN [calls |-> c1,
             resp |-> ReportResult(FALSE, FALSE,
                                   [status |-> 401, data |-> "Authentication required"],
                                   NoReportUser, <<>>)]
     ELSE IF dbDown
       THEN [calls |-> c2,
             resp |-> ReportResult(TRUE, FALSE, NoReportResponse, NoReportUser, <<>>)]
     ELSE [calls |-> c2,
           resp |-> ReportResult(FALSE, TRUE, NoReportResponse,
                                 [email |-> user.email, name |-> user.name], found)]

AuthenticateAndFetchWordsByStatus ==
  /\ req.op = "none"
  /\ UNCHANGED clientVars
  /\ \E user \in ReportUsers, filter \in ReportFilters, dbDown \in BOOLEAN :
       LET r == AuthenticateAndFetchResult(words, user, filter, dbDown)
       IN /\ req' = [op |-> "authenticateAndFetchWordsByStatus", user |-> user,
                     filter |-> filter, dbDown |-> dbDown]
          /\ resp' = r.resp
          /\ calls' = r.calls
  /\ UNCHANGED dbVars

InitReport ==
  /\ words \in [WordLemmas -> ReportStatuses]
  /\ notes = [i \in NoteIds |-> NoNote]
  /\ nextNoteId = 1
  /\ req = NoRequest
  /\ resp = NoResponse
  /\ calls = <<>>
  /\ NoSection

NextReport == AuthenticateAndFetchWordsByStatus \/ Respond

SpecReport == InitReport /\ [][NextReport]_vars

\* ------------------------------------------------------------------ claims
CommentOps == {"CommentPATCH", "CommentDELETE"}

\* The note the handler run looked up: getNoteWithDetails' result when it is a
\* note of the word the request names, NoNote otherwise.
LookedUp ==
  IF \E i \in 1..Len(calls) :
       /\ calls[i].fn = "getNoteWithDetails"
       /\ calls[i].ret.exists
       /\ calls[i].ret.lemma = NormalizeLemma(req.lemma)
  THEN (CHOOSE c \in {calls[i] : i \in 1..Len(calls)} : c.fn = "getNoteWithDetails").ret
  ELSE NoNote

\* The requester owns the note: the note's userId is the integer the session
\* id denotes.
Owns(user, note) ==
  \E n \in 0..9 : note.userId = Num(n) /\ user.id # <<>> /\ ParseInt(user.id) = Num(n)

DeleteAllowed(user, note) ==
  \/ user.role \in {"admin", "superadmin"}
  \/ user.role = "lexicographer" /\ Owns(user, note)

\* C1: DELETE of a word answers 401 without a session user and 403 for a session
\* user of any role but admin and superadmin, in both cases without calling
\* deleteWordByLemma; deleteWordByLemma is called only for admin or superadmin.
C1_DeleteWordAdminOnly ==
  req.op = "WordDELETE" =>
    /\ ~req.user.present => resp.status = 401 /\ ~Called("deleteWordByLemma")
    /\ (req.user.present /\ req.user.role \notin {"admin", "superadmin"}) =>
         resp.status = 403 /\ ~Called("deleteWordByLemma")
    /\ Called("deleteWordByLemma") =>
         req.user.present /\ req.user.role \in {"admin", "superadmin"}

\* C1 witness: a lexicographer asked to delete a word that exists and was refused.
C1_Witness ==
  /\ req.op = "WordDELETE" /\ req.user.present /\ req.user.role = "lexicographer"
  /\ req.lemma = <<"a">> /\ words[<<"a">>] # "none"
  /\ resp.status = 403

\* C9: when applyRateLimit reports failure, GET and POST answer 429 having made
\* no other call: no parameter or body was read, no getWordByLemma and no
\* createWord was made; and applyRateLimit is always the handler's first call.
C9_RateLimitFirst ==
  req.op \in {"WordGET", "WordPOST"} =>
    /\ Len(calls) >= 1 /\ calls[1].fn = "applyRateLimit"
    /\ ~req.rateOk =>
         /\ resp.status = 429
         /\ Len(calls) = 1
         /\ ~Called("getWordByLemma") /\ ~Called("createWord")
         /\ ~Called("params") /\ ~Called("request.json")

\* C9 witness: a rate-limited POST with a valid lemma was answered.
C9_Witness ==
  /\ req.op = "WordPOST" /\ ~req.rateOk
  /\ req.body.json /\ req.body.lemma = JsStr(<<"a">>) /\ words[<<"a">>] = "none"
  /\ resp.status = 429

\* C10: GET passes includeDrafts to getWordByLemma exactly when the request is in
\* editor mode: isEditorModeFromHeaders is true or the query parameter editorMode
\* is the string 'true'; otherwise it passes no options.
C10_DraftsIffEditorMode ==
  req.op = "WordGET" =>
    \A i \in 1..Len(calls) :
      calls[i].fn = "getWordByLemma" =>
        /\ calls[i].args[2] \in {IncludeDrafts, NoOptions}
        /\ calls[i].args[2] = IncludeDrafts <=>
             (req.headerEditor \/ req.query = JsStr(<<"t", "r", "u", "e">>))

\* C10 witness: a draft word was returned to a request whose only sign of editor
\* mode is the query parameter.
C10_Witness ==
  /\ req.op = "WordGET" /\ ~req.headerEditor /\ req.query = JsStr(<<"t", "r", "u", "e">>)
  /\ Called("getWordByLemma")
  /\ resp.status = 200 /\ resp.data.status = "imported"

\* C2: DELETE of a comment calls deleteNoteById only for an admin or superadmin,
\* or for a lexicographer who owns the comment; for every other role/ownership
\* combination on a comment the handler found, the answer is 403 and
\* deleteNoteById is not called.
C2_DeleteOnlyAdminOrOwningLexicographer ==
  req.op = "CommentDELETE" =>
    /\ Called("deleteNoteById") => LookedUp.exists /\ DeleteAllowed(req.user, LookedUp)
    /\ (LookedUp.exists /\ ~DeleteAllowed(req.user, LookedUp)) =>
         resp.status = 403 /\ ~Called("deleteNoteById") /\ notes[ParseInt(req.commentId).v].exists

\* C2 witness: a lexicographer who does not own the comment was refused.
C2_Witness ==
  /\ req.op = "CommentDELETE" /\ req.user.role = "lexicographer"
  /\ LookedUp.exists /\ LookedUp.userId = Num(2) /\ req.user.id = <<"1">>
  /\ resp.status = 403

EditAllowed(user, note) ==
  Owns(user, note) /\ user.role \in {"lexicographer", "admin", "superadmin"}

\* C3: PATCH of a comment calls updateNoteValue only when the requester owns the
\* comment and is lexicographer, admin or superadmin; an admin or superadmin who
\* does not own the comment the handler found gets 403 and updateNoteValue is not
\* called.
C3_EditOnlyOwner ==
  req.op = "CommentPATCH" =>
    /\ Called("updateNoteValue") => LookedUp.exists /\ EditAllowed(req.user, LookedUp)
    /\ (LookedUp.exists /\ ~EditAllowed(req.user, LookedUp)) =>
         resp.status = 403 /\ ~Called("updateNoteValue")

\* C3 witness: an admin who does not own the comment was refused.
C3_Witness ==
  /\ req.op = "CommentPATCH" /\ req.user.role = "admin"
  /\ LookedUp.exists /\ ~Owns(req.user, LookedUp)
  /\ resp.status = 403

\* C4: on both comment endpoints a request without a session user is answered
\* 401 whatever its lemma, comment id and body, and the handler has made no call
\* that reads or writes a note.
C4_NoSessionIs401 ==
  (req.op \in CommentOps /\ ~req.user.present) =>
    /\ resp.status = 401
    /\ \A i \in 1..Len(calls) : calls[i].fn = "getSessionUser"

\* C4 witness: an unauthenticated PATCH with a valid id and body for an existing
\* comment was answered.
C4_Witness ==
  /\ req.op = "CommentPATCH" /\ ~req.user.present
  /\ req.commentId = <<"1">> /\ notes[1].exists /\ notes[1].lemma = req.lemma
  /\ req.body.json /\ req.body.note = JsStr(<<"a">>)
  /\ resp.status = 401

\* The text has a character that is not a space.
NonBlank(text) == \E i \in 1..Len(text) : text[i] # " "

\* t is text without the spaces at its ends.
IsTrimOf(t, text) ==
  /\ t # <<>> /\ t[1] # " " /\ t[Len(t)] # " "
  /\ \E i \in 0..Len(text), j \in 0..Len(text) : text = Repeat(" ", i) \o t \o Repeat(" ", j)

HasId(list, id) == \E i \in 1..Len(list) : list[i].id = id

\* C5: when addComment is called with a text that is not blank and the lemma is
\* not empty, the step itself (before any response) turns the comments list into
\* the previous list with one entry put first, whose id is the temporary id
\* (Date.now()) and whose note is the trimmed text.
C5_OptimisticPrepend ==
  [][(last'.op = "addComment" /\ NonBlank(last'.text) /\ sectionLemma # <<>>) =>
       /\ Len(comments') = Len(comments) + 1
       /\ comments'[1].id = now
       /\ IsTrimOf(comments'[1].note, last'.text)
       /\ SubSeq(comments', 2, Len(comments')) = comments
       /\ Len(adds') = Len(adds) + 1]_vars

\* C5 witness: addComment(" a ") has just put its temporary entry before a comment
\* of the server, and its PUT is in flight.
C5_Witness ==
  /\ last.op = "addComment" /\ last.text = <<" ", "a", " ">>
  /\ Len(comments) = 2 /\ comments[1] = Comment(now, <<"a">>) /\ comments[2].id \in NoteIds
  /\ Len(adds) = 1

\* C6: when the PUT succeeds while an entry with the temporary id is in the list,
\* the list keeps its length, the saved comment sits at the index of the
\* temporary entry, and no entry with the temporary id remains.
C6_ReplacedInPlace ==
  [][(last'.op = "addSaved" /\ mounted /\ HasId(comments, last'.optimistic.id)) =>
       /\ Len(comments') = Len(comments)
       /\ comments'[FindIndex(comments, last'.optimistic.id)] = last'.saved
       /\ ~HasId(comments', last'.optimistic.id)]_vars

\* C6 holds of every success in which the temporary id is the id of one entry only.
C6_ReplacedInPlaceWhenIdUnique ==
  [][(/\ last'.op = "addSaved" /\ mounted
      /\ Cardinality({i \in 1..Len(comments) : comments[i].id = last'.optimistic.id}) = 1) =>
       /\ Len(comments') = Len(comments)
       /\ comments'[FindIndex(comments, last'.optimistic.id)] = last'.saved
       /\ ~HasId(comments', last'.optimistic.id)]_vars

\* C7: when the PUT fails, the temporary entry is removed, every other comment
\* stays in its previous order (the list loses at most that one entry), and the
\* error message is set.
C7_RollbackRemovesOnlyTemporary ==
  [][(last'.op = "addFailed" /\ mounted) =>
       /\ error' # NoError
       /\ ~HasId(comments', last'.optimistic.id)
       /\ \/ comments' = comments
          \/ \E i \in 1..Len(comments) :
               comments[i].id = last'.optimistic.id /\ comments' = RemoveAt(comments, i)]_vars

\* C7 holds of every failure in which the temporary id is the id of at most one entry.
C7_RollbackWhenIdUnique ==
  [][(/\ last'.op = "addFailed" /\ mounted
      /\ Cardinality({i \in 1..Len(comments) : comments[i].id = last'.optimistic.id}) <= 1) =>
       /\ error' # NoError
       /\ ~HasId(comments', last'.optimistic.id)
       /\ \/ comments' = comments
          \/ \E i \in 1..Len(comments) :
               comments[i].id = last'.optimistic.id /\ comments' = RemoveAt(comments, i)]_vars

\* C8: once the lemma has changed or the section has unmounted, the settling
\* (response or failure) of a fetch started before changes neither the comments
\* list nor the error message nor the loading flag; the loading flag is cleared
\* only by the settling of the fetch of the effect run in force.
C8_StaleLoadIgnored ==
  [][/\ (last'.op = "loadSettled" /\ last'.stale) => UNCHANGED <<comments, error, loading>>
     /\ (loading /\ ~loading') => (last'.op = "loadSettled" /\ ~last'.stale)]_vars

\* C8 witness: the response of a fetch for the previous lemma, carrying a comments
\* array, arrived while the fetch for the current lemma is still loading.
C8_Witness ==
  /\ last.op = "loadSettled" /\ last.stale /\ last.outcome = "array"
  /\ mounted /\ sectionLemma # <<>> /\ loading
  /\ Len(loads) = 1 /\ ~loads[1].stale

\* C11: GET calls getWordByLemma only with a decoded lemma of 1 to 100 characters.
\* Past the rate limit, a lemma parameter that is empty or all whitespace, and
\* one whose decoded form has more than 100 characters, are answered 400 with no
\* getWordByLemma call; a lookup that returns no word is answered 404.
C11_LookupOnlyBoundedLemma ==
  req.op = "WordGET" =>
    LET decoded == DecodeURIComponent(Trim(req.lemma))
    IN /\ \A i \in 1..Len(calls) :
            calls[i].fn = "getWordByLemma" =>
              /\ Len(calls[i].args[1]) >= 1 /\ Len(calls[i].args[1]) <= LemmaMaxLength
              /\ calls[i].ret = NoWord => resp.status = 404
       /\ (req.rateOk /\ ~NonBlank(req.lemma)) =>
            resp.status = 400 /\ ~Called("getWordByLemma")
       /\ (req.rateOk /\ NonBlank(req.lemma) /\ decoded # URIError
              /\ Len(decoded) > LemmaMaxLength) =>
            resp.status = 400 /\ ~Called("getWordByLemma")

\* C11 witness: a GET for a lemma of 101 characters passed the rate limit and
\* was answered 400.
C11_Witness ==
  /\ req.op = "WordGET" /\ req.rateOk /\ Len(req.lemma) = LemmaMaxLength + 1
  /\ resp.status = 400 /\ resp.data = "Lemma too long"

\* C12: POST requires a lemma. Past the rate limit, a body object whose lemma is
\* missing, is not a string, or is empty after trimming is answered 400 and
\* createWord is not called; createWord is only ever called with the trimmed,
\* non-empty lemma; and when createWord returns, the answer is 201 carrying the
\* wordId, lemma and letter it returned.
C12_PostRequiresLemma ==
  req.op = "WordPOST" =>
    /\ (/\ req.rateOk /\ req.body.json /\ ~req.body.isNull
        /\ (req.body.lemma.t # "string" \/ ~NonBlank(req.body.lemma.s))) =>
         resp.status = 400 /\ ~Called("createWord")
    /\ \A i \in 1..Len(calls) :
         calls[i].fn = "createWord" =>
           /\ req.body.lemma.t = "string" /\ IsTrimOf(calls[i].args[1], req.body.lemma.s)
           /\ calls[i].ret # CreateThrown =>
                /\ resp.status = 201
                /\ resp.data = calls[i].ret
                /\ resp.data.lemma = calls[i].args[1]

\* C12 witness: a POST whose lemma is a single space passed the rate limit and
\* was answered 400.
C12_Witness ==
  /\ req.op = "WordPOST" /\ req.rateOk /\ req.body.json
  /\ req.body.lemma = JsStr(<<" ">>)
  /\ resp.status = 400 /\ ~Called("createWord")

\* The PUT request reached the body's fields: the lemma parameter decoded and the
\* body is a JSON object.
PutBodyRead(r) ==
  /\ DecodeURIComponent(r.lemma) # URIError
  /\ r.body.json /\ r.body.object

\* The body carries a comment that is not empty after trimming.
CommentGiven(r) == r.body.comment.t = "string" /\ NonBlank(r.body.comment.s)

\* C13: a PUT whose body has a comment that is not empty after trimming and no
\* word calls addNoteToWord with the decoded lemma and the trimmed comment, does
\* not call updateWordByLemma, and, when addNoteToWord returns, answers success
\* with the created comment in data.comment, the note being stored.
C13_CommentOnlyPut ==
  (req.op = "WordPUT" /\ PutBodyRead(req) /\ CommentGiven(req) /\ ~req.body.word) =>
    /\ ~Called("updateWordByLemma")
    /\ \E i \in 1..Len(calls) :
         /\ calls[i].fn = "addNoteToWord"
         /\ calls[i].args[1] = DecodeURIComponent(req.lemma)
         /\ IsTrimOf(calls[i].args[2], req.body.comment.s)
         /\ calls[i].ret # Thrown =>
              /\ resp.status = 200
              /\ resp.data.comment = calls[i].ret
              /\ resp.data.comment.note = calls[i].args[2]
              /\ notes[resp.data.id] = calls[i].ret

\* C13 witness: a PUT carrying only the comment " a " was answered with the
\* created comment and the word was not updated.
C13_Witness ==
  /\ req.op = "WordPUT" /\ ~req.body.word /\ req.body.comment = JsStr(<<" ", "a", " ">>)
  /\ resp.status = 200 /\ resp.data.comment.note = <<"a">>
  /\ notes[1].exists /\ notes[1].note = <<"a">>
  /\ ~Called("updateWordByLemma")

\* C14: a PUT whose body has neither a word nor a comment that is not empty after
\* trimming is answered 400, calls neither addNoteToWord nor updateWordByLemma
\* and leaves the database as it was, also when the body carries a status.
C14_NoChangesIs400 ==
  [][(/\ req'.op = "WordPUT" /\ PutBodyRead(req')
      /\ ~CommentGiven(req') /\ ~req'.body.word) =>
       /\ resp'.status = 400
       /\ \A i \in 1..Len(calls') :
            calls'[i].fn \notin {"addNoteToWord", "updateWordByLemma", "getSessionUser"}
       /\ UNCHANGED dbVars]_vars

\* C14 witness: a PUT carrying only a status for a draft word was answered 400
\* and the word is still a draft.
C14_Witness ==
  /\ req.op = "WordPUT" /\ req.lemma = <<"a">>
  /\ req.body.object /\ ~req.body.word /\ req.body.comment = JsUndefined
  /\ req.body.status = "published"
  /\ resp.status = 400 /\ words[<<"a">>] = "imported"

\* C15: authenticateAndFetchWordsByStatus calls getSessionUser first. With no
\* session user it returns success=false with a 401 response and getWordsByStatus
\* is not called; with a session user it calls getWordsByStatus once, with
\* ['redacted', 'reviewedLex'] for filter 'both' and with [filter] for filter
\* 'redacted' or 'reviewedLex'.
C15_AuthenticateBeforeFetch ==
  req.op = "authenticateAndFetchWordsByStatus" =>
    LET fetches == {i \in 1..Len(calls) : calls[i].fn = "getWordsByStatus"}
    IN /\ Len(calls) >= 1 /\ calls[1].fn = "getSessionUser"
       /\ ~req.user.present =>
            /\ ~resp.thrown /\ ~resp.success /\ resp.response.status = 401
            /\ fetches = {}
       /\ req.user.present =>
            /\ Cardinality(fetches) = 1
            /\ \A i \in fetches :
                 /\ req.filter = "both" => calls[i].args[1] = <<"redacted", "reviewedLex">>
                 /\ req.filter \in {"redacted", "reviewedLex"} =>
                      calls[i].args[1] = <<req.filter>>

\* C15 witness: a signed-in user asked for both statuses and got the redacted
\* word and the reviewed word.
C15_Witness ==
  /\ req.op = "authenticateAndFetchWordsByStatus" /\ req.user.present
  /\ req.filter = "both"
  /\ words[<<"a">>] = "redacted" /\ words[<<"b">>] = "reviewedLex"
  /\ resp.success /\ resp.words = LemmaOrder /\ resp.user.email = req.user.email

\* C16: PUT checks neither authentication nor role: it never answers 401 or 403,
\* and its status and its effect on the words are the same for every session,
\* present or not. A comment it creates is attributed to the integer the session
\* id parses to, and to no user when there is no session or the id has no digit
\* to parse; a body with a word has updateWordByLemma called whoever asks.
C16_PutNeedsNoSession ==
  [][req'.op = "WordPUT" =>
       /\ resp'.status \notin {401, 403}
       /\ \A u \in PutUsers :
            LET r == WordPUTResult(words, notes, nextNoteId, u, req'.lemma, req'.body,
                                   req'.dbDown)
            IN r.status = resp'.status /\ r.words = words'
       /\ \A i \in 1..Len(calls') :
            calls'[i].fn = "addNoteToWord" =>
              LET id == req'.user.id
                  userId == calls'[i].args[3]
              IN /\ (req'.user.present /\ id # <<>> /\ ParseInt(id).t = "number") =>
                      userId = ParseInt(id)
                 /\ (~req'.user.present \/ \A k \in 1..Len(id) : id[k] \notin Digits) =>
                      userId = Null
       /\ (PutBodyRead(req') /\ req'.body.word /\ ~CommentGiven(req')) =>
            \E i \in 1..Len(calls') : calls'[i].fn = "updateWordByLemma"]_vars

\* C16 witness: without a session, a PUT with a word, a status and a comment was
\* answered success; the word was updated and the comment has no author.
C16_Witness ==
  /\ req.op = "WordPUT" /\ ~req.user.present /\ req.lemma = <<"a">>
  /\ req.body.word /\ req.body.status = "published" /\ req.body.comment = JsStr(<<"a">>)
  /\ resp.status = 200 /\ Called("updateWordByLemma")
  /\ words[<<"a">>] = "published"
  /\ notes[1].exists /\ notes[1].userId = Null

====
